---- MODULE Spec2Model ----
(***************************************************************************)
(* Model of the streaming-response coordination core of panello_ai_service *)
(*                                                                         *)
(*   services/lock_manager.py      LockManager (asyncio, in memory)        *)
(*   routers/chat.py               chat_stream, _process_with_lock_...     *)
(*   services/chat_orchestrator.py ChatOrchestrator                        *)
(*   routers/qa.py                 qa_stream                               *)
(*   services/qa_orchestrator.py   QAOrchestrator                          *)
(*   routers/test.py               attempt_lock_acquisition                *)
(*                                                                         *)
(* One asyncio event loop runs the coroutines: a step of the model is the  *)
(* code a coroutine executes between two suspension points.                *)
(* asyncio.wait_for(lock.acquire(), timeout) wraps the acquire in a task   *)
(* of its own, so the caller is suspended before the acquire runs and      *)
(* again before it learns the result.  async with _lock_creation_lock      *)
(* never suspends: its critical sections contain no await, so it is        *)
(* always free when requested.                                             *)
(*                                                                         *)
(* Any coroutine that is ready may take the next step: the order in which  *)
(* the event loop runs ready callbacks is not modelled.                     *)
(*                                                                         *)
(* The specifications share the variables:                                 *)
(*   SpecLock  callers of LockManager.acquire_lock (routers/test.py)       *)
(*   SpecChat  POST /chat/stream requests                                  *)
(*   SpecQA    POST /qa/stream requests                                    *)
(*   Spec      a service that mounts either router                         *)
(*   FairSpec  Spec, where a coroutine that can continue does continue     *)
(***************************************************************************)
EXTENDS Integers, Sequences, FiniteSets, TLC

(***************************************************************************)
(* Bounds                                                                  *)
(***************************************************************************)
\* increments one generation pass may deliver
MaxChunks == 2
\* hand-offs one request is followed through
MaxHops == 2

\* concurrent requests (each is one coroutine at a time)
Tasks == {"r1", "r2"}
\* lock keys "room_id:thread_id"
Keys == {"room:t1", "room:t1:b"}
\* asyncio.Lock objects that can be referenced at once
ObjIds == 1 .. (Cardinality(Tasks) + Cardinality(Keys))
NoObj == 0
\* no row in the table of thread locks
NoLock == [holder |-> "none", kind |-> "none", expired |-> FALSE, by |-> "none"]

VARIABLES
    \* ---- LockManager ----
    locks,      \* _locks: key -> lock object (NoObj: no entry)
    active,     \* _active_requests
    olocked,    \* asyncio.Lock._locked of each lock object
    owaiters,   \* asyncio.Lock._waiters of each lock object (futures, by task)
    \* ---- coroutines ----
    pc,         \* position of each task
    phase,      \* what the task is: "test", "handler", "bg", "chained"
    key,        \* the room/thread the task works on
    mylock,     \* local variable lock of acquire_lock
    ai,         \* ai_id of the run
    umsg,       \* user_message_id of the request
    sid,        \* streaming_message_id of the run
    full,       \* full_response accumulated so far
    nchunks,    \* increments received in this pass
    hops,       \* hand-offs made so far for the request
    \* ---- store (Supabase) ----
    sessions,   \* table streaming_messages: row id -> row
    threadLock, \* table of thread locks: thread -> lock row
    messages    \* permanent messages materialized from sessions: which session,
                \* and the how-manieth of that session (nothing here reads the
                \* content of a message back, it is not kept)

lmvars == <<locks, active, olocked, owaiters>>
reqvars == <<ai, umsg, sid, full, nchunks, hops>>
dbvars == <<sessions, messages>>
vars == <<locks, active, olocked, owaiters, pc, phase, key, mylock,
          ai, umsg, sid, full, nchunks, hops, sessions, messages, threadLock>>

(***************************************************************************)
(* LockManager                                                             *)
(***************************************************************************)
\* lock objects some variable still refers to
Referenced == {locks[k] : k \in Keys} \cup {mylock[t] : t \in Tasks}

\* asyncio.Lock(): a new object, unlocked and without waiters
NewLock == CHOOSE o \in ObjIds : o \notin Referenced /\ \A p \in ObjIds : p < o => p \in Referenced

\* LockManager.is_locked
is_locked(k) == k \in active

\* LockManager._get_lock: the object of the key, created when missing
GetLockObj(k) == IF locks[k] # NoObj THEN locks[k] ELSE NewLock

\* Lock._wake_up_first: the first waiter's future gets its result
WakeFirst(pcf, ws) ==
    IF ws # <<>> /\ pcf[Head(ws)] = "lk_wait"
    THEN [pcf EXCEPT ![Head(ws)] = "lk_woken"]
    ELSE pcf

RemoveWaiter(ws, t) == SelectSeq(ws, LAMBDA w : w # t)

\* the finally block of acquire_lock, for the caller t holding object o:
\* discard the key, release the lock, drop the map entry when o is unused
\* the finally block, had it left the key in the active set
ExitActive_Keep(t) == active

\* the finally block: discard the key
ExitActive(t) == active \ {key[t]}
ExitLocks(t) ==
    IF locks[key[t]] # NoObj /\ owaiters[mylock[t]] = <<>>
    THEN [locks EXCEPT ![key[t]] = NoObj]
    ELSE locks
ExitLocked(t) == [olocked EXCEPT ![mylock[t]] = FALSE]
ExitPc(t, next) == [WakeFirst(pc, owaiters[mylock[t]]) EXCEPT ![t] = next]

\* acquire_lock up to the call of wait_for: the fast check passed, the lock
\* object is fetched and the acquire is scheduled
LMEnter(t, k) ==
    /\ ~is_locked(k)
    /\ mylock' = [mylock EXCEPT ![t] = GetLockObj(k)]
    /\ locks' = [locks EXCEPT ![k] = GetLockObj(k)]
    /\ UNCHANGED <<active, olocked, owaiters>>

\* Lock.acquire runs in the task wait_for created
InnerAcquire(t) ==
    /\ pc[t] = "lk_call"
    /\ IF ~olocked[mylock[t]] /\ owaiters[mylock[t]] = <<>>
       THEN /\ olocked' = [olocked EXCEPT ![mylock[t]] = TRUE]
            /\ pc' = [pc EXCEPT ![t] = "lk_got"]
            /\ UNCHANGED owaiters
       ELSE /\ owaiters' = [owaiters EXCEPT ![mylock[t]] = Append(@, t)]
            /\ pc' = [pc EXCEPT ![t] = "lk_wait"]
            /\ UNCHANGED olocked
    /\ UNCHANGED <<locks, active, phase, key, mylock, reqvars, dbvars, threadLock>>

\* a woken waiter resumes inside Lock.acquire and takes the lock
WaiterResume(t) ==
    /\ pc[t] = "lk_woken"
    /\ owaiters' = [owaiters EXCEPT ![mylock[t]] = RemoveWaiter(@, t)]
    /\ olocked' = [olocked EXCEPT ![mylock[t]] = TRUE]
    /\ pc' = [pc EXCEPT ![t] = "lk_got"]
    /\ UNCHANGED <<locks, active, phase, key, mylock, reqvars, dbvars, threadLock>>

\* the timeout, had acquire_lock swallowed TimeoutError: the caller goes on
\* as if it had the lock
LMTimeout_Proceeds(t, next) ==
    /\ pc[t] \in {"lk_wait", "lk_woken"}
    /\ owaiters' = [owaiters EXCEPT ![mylock[t]] = RemoveWaiter(@, t)]
    /\ pc' = [pc EXCEPT ![t] = "lk_got"]
    /\ UNCHANGED <<locks, active, olocked, mylock>>

\* the 0.1 s of wait_for elapse: the acquire is cancelled, the future leaves
\* the queue, and acquire_lock raises ConflictException
LMTimeout(t, next) ==
    /\ pc[t] \in {"lk_wait", "lk_woken"}
    /\ owaiters' = [owaiters EXCEPT ![mylock[t]] = RemoveWaiter(@, t)]
    /\ pc' = [(IF olocked[mylock[t]] THEN pc
               ELSE WakeFirst(pc, RemoveWaiter(owaiters[mylock[t]], t)))
              EXCEPT ![t] = next]
    /\ mylock' = [mylock EXCEPT ![t] = NoObj]
    /\ UNCHANGED <<locks, active, olocked>>

\* the timeout in a caller that only reports the conflict (test endpoint: a
\* failed attempt; chat_stream: HTTP 409)
WaiterTimeout(t) ==
    /\ phase[t] \in {"test", "handler"}
    /\ LMTimeout(t, IF phase[t] = "test" THEN "failed" ELSE "rejected")
    /\ UNCHANGED <<phase, key, reqvars, dbvars, threadLock>>

(***************************************************************************)
(* routers/test.py: attempt_lock_acquisition                               *)
(***************************************************************************)
\* an attempt on key k: the is_locked check, then acquire_lock up to wait_for
TestStartAt(t, k) ==
    /\ pc[t] = "idle" /\ phase[t] = "test"
    /\ key' = [key EXCEPT ![t] = k]
    /\ IF is_locked(k)
       THEN /\ pc' = [pc EXCEPT ![t] = "failed"]
            /\ UNCHANGED <<locks, active, olocked, owaiters, mylock>>
       ELSE /\ LMEnter(t, k)
            /\ pc' = [pc EXCEPT ![t] = "lk_call"]
    /\ UNCHANGED <<phase, reqvars, dbvars, threadLock>>

TestStart(t) == \E k \in Keys : TestStartAt(t, k)

\* the caller resumes with the lock: mark the key active, enter the body
TestEnter(t) ==
    /\ pc[t] = "lk_got" /\ phase[t] = "test"
    /\ active' = active \cup {key[t]}
    /\ pc' = [pc EXCEPT ![t] = "t_body"]
    /\ UNCHANGED <<locks, olocked, owaiters, phase, key, mylock, reqvars, dbvars, threadLock>>

\* asyncio.sleep ends, the body returns, the finally block runs
TestExit(t) ==
    /\ pc[t] = "t_body"
    /\ active' = ExitActive(t)
    /\ olocked' = ExitLocked(t)
    /\ locks' = ExitLocks(t)
    /\ pc' = ExitPc(t, "success")
    /\ mylock' = [mylock EXCEPT ![t] = NoObj]
    /\ UNCHANGED <<owaiters, phase, key, reqvars, dbvars, threadLock>>

\* the body raises (the sleeping request is cancelled): the exception passes
\* through the yield, the finally block runs, the exception goes on to the
\* caller
TestRaise(t) ==
    /\ pc[t] = "t_body"
    /\ active' = ExitActive(t)
    /\ olocked' = ExitLocked(t)
    /\ locks' = ExitLocks(t)
    /\ pc' = ExitPc(t, "raised")
    /\ mylock' = [mylock EXCEPT ![t] = NoObj]
    /\ UNCHANGED <<owaiters, phase, key, reqvars, dbvars, threadLock>>

\* the endpoint is called again
TestAgain(t) ==
    /\ pc[t] \in {"success", "failed", "raised"} /\ phase[t] = "test"
    /\ pc' = [pc EXCEPT ![t] = "idle"]
    /\ UNCHANGED <<locks, active, olocked, owaiters, phase, key, mylock, reqvars, dbvars, threadLock>>

InitLM ==
    /\ locks = [k \in Keys |-> NoObj]
    /\ active = {}
    /\ olocked = [o \in ObjIds |-> FALSE]
    /\ owaiters = [o \in ObjIds |-> <<>>]
    /\ mylock = [t \in Tasks |-> NoObj]

InitReq ==
    /\ pc = [t \in Tasks |-> "idle"]
    /\ key = [t \in Tasks |-> "room:t1"]
    /\ ai = [t \in Tasks |-> "none"]
    /\ umsg = [t \in Tasks |-> "none"]
    /\ sid = [t \in Tasks |-> <<>>]
    /\ full = [t \in Tasks |-> <<>>]
    /\ nchunks = [t \in Tasks |-> 0]
    /\ hops = [t \in Tasks |-> 0]
    /\ sessions = <<>>
    /\ messages = {}
    /\ threadLock = [k \in Keys |-> NoLock]

InitLock ==
    /\ InitLM
    /\ InitReq
    /\ phase = [t \in Tasks |-> "test"]

NextLock ==
    \E t \in Tasks :
        \/ TestStart(t)
        \/ InnerAcquire(t)
        \/ WaiterResume(t)
        \/ WaiterTimeout(t)
        \/ TestEnter(t)
        \/ TestExit(t)
        \/ TestRaise(t)
        \/ TestAgain(t)

SpecLock == InitLock /\ [][NextLock]_vars

(***************************************************************************)
(* routers/test.py: test_lock_simulation called by two clients, each for   *)
(* (room_id, thread_id) pairs of its own, so that no two requests in       *)
(* flight are for the same pair                                            *)
(***************************************************************************)
\* LockManager._get_lock_key
get_lock_key(room_id, thread_id) == room_id \o ":" \o thread_id

\* the pairs each client asks for
PairsOf(t) ==
    IF t = "r1" THEN {<<"room", "t1">>, <<"room", "t1:b">>} ELSE {<<"room:t1", "b">>}

TestPairStart(t) == \E p \in PairsOf(t) : TestStartAt(t, get_lock_key(p[1], p[2]))

NextPairs ==
    \E t \in Tasks :
        \/ TestPairStart(t)
        \/ InnerAcquire(t)
        \/ WaiterResume(t)
        \/ WaiterTimeout(t)
        \/ TestEnter(t)
        \/ TestExit(t)
        \/ TestAgain(t)

SpecPairs == InitLock /\ [][NextPairs]_vars

(***************************************************************************)
(* routers/test.py: test_concurrent_locks, one batch of attempts launched  *)
(* together, the body sleeping 1 s against the 0.1 s of wait_for: when the *)
(* sleep ends every other attempt of the batch has started and has either  *)
(* failed or is inside a body of its own                                   *)
(***************************************************************************)
Settled(t) == pc[t] \in {"failed", "success", "t_body"}

TestExitLongHold(t) ==
    /\ \A u \in Tasks \ {t} : Settled(u)
    /\ TestExit(t)

\* the endpoint is called again once it has answered
TestBatchAgain ==
    /\ \A t \in Tasks : pc[t] \in {"success", "failed"} /\ phase[t] = "test"
    /\ pc' = [t \in Tasks |-> "idle"]
    /\ UNCHANGED <<locks, active, olocked, owaiters, phase, key, mylock, reqvars, dbvars, threadLock>>

NextBatch ==
    \/ \E t \in Tasks :
        \/ TestStart(t)
        \/ InnerAcquire(t)
        \/ WaiterTimeout(t)
        \/ TestEnter(t)
        \/ TestExitLongHold(t)
    \/ TestBatchAgain

SpecBatch == InitLock /\ [][NextBatch]_vars

(***************************************************************************)
(* Tables read by the orchestrators                                        *)
(***************************************************************************)
NoAi == "none"
\* chat_orchestrator.MODERATOR_AI_ID
MODERATOR_AI_ID == "mod"
\* table ai (active rows); room_ai lists the same agents for the room
AiTable ==
    [mod  |-> [name |-> "Moderator", is_moderator |-> TRUE],
     spec |-> [name |-> "Ann", is_moderator |-> FALSE]]
AiIds == DOMAIN AiTable
RoomAi == {"mod", "spec"}
\* ids of user messages in table messages, with their senders
UserMessages == [m1 |-> "u1"]
\* ai_id and user_message_id values a request may carry
ReqAis == {"mod", "spec", "ghost"}
ReqMsgs == {"m1", "m0"}
\* the room/thread the requests are for
ReqKeys == {"room:t1"}

\* what the fields of a request body may hold: the values above or the
\* empty string; the key "" stands for an empty room_id or thread_id
InKeys == ReqKeys \cup {""}
InAis == ReqAis \cup {""}
InMsgs == ReqMsgs \cup {""}

\* the validation, had the test of user_message_id been left out
ValidRequest_IdsOnly(k, a, m) == k # "" /\ a # ""

\* the validation at the head of chat_stream and qa_stream
ValidRequest(k, a, m) == k # "" /\ a # "" /\ m # ""

\* _get_ai_info: the row or None
HasAiInfo(a) == a \in AiIds
HasUserMessage(m) == m \in DOMAIN UserMessages

(***************************************************************************)
(* Generated text: a sequence of tokens.  A token "**x**" is a span the    *)
(* pattern \*\*([^*]+)\*\* matches; "hi" is plain text.                    *)
(***************************************************************************)
Plain == {"hi"}
Marked == {"**ann**", "**Moderator**", "**Bob**"}
IsBold(tok) == tok \in Marked
\* the increments the backend may deliver after text: plain text, and for a
\* moderator one marked span
Chunks(isMod, text) ==
    {<<x>> : x \in Plain} \cup
    (IF isMod /\ SelectSeq(text, IsBold) = <<>> THEN {<<x>> : x \in Marked} ELSE {})
BoldName(tok) ==
    CASE tok = "**ann**" -> "ann"
      [] tok = "**Moderator**" -> "Moderator"
      [] tok = "**Bob**" -> "Bob"
      [] OTHER -> ""
\* str.lower
Lower(n) ==
    CASE n = "Ann" -> "ann"
      [] n = "Moderator" -> "moderator"
      [] n = "Bob" -> "bob"
      [] OTHER -> n
ErrAiNotFound == <<"Error: AI not found">>
ErrMsgNotFound == <<"Error: User message not found">>
ErrException == <<"Error: exception">>
ErrLockConflict == <<"Error: Processing was interrupted due to lock conflict">>

\* _extract_ai_name_from_moderator_response: the first marked span, or ""
ExtractName(text) ==
    LET bold == SelectSeq(text, IsBold)
    IN IF bold = <<>> THEN "" ELSE BoldName(Head(bold))

\* the lookup, had it fallen back on an agent of the room when no name
\* matches
AiIdByName_Fallback(n) ==
    LET hits == {a \in RoomAi \cap AiIds : Lower(AiTable[a].name) = Lower(n)}
    IN IF hits = {} THEN "spec" ELSE CHOOSE a \in hits : TRUE

\* ChatOrchestrator._get_ai_id_by_name: case-insensitive match among the
\* room's active agents
AiIdByName(n) ==
    LET hits == {a \in RoomAi \cap AiIds : Lower(AiTable[a].name) = Lower(n)}
    IN IF hits = {} THEN NoAi ELSE CHOOSE a \in hits : TRUE

\* the agent ChatOrchestrator.process_streaming_response hands off to after
\* a pass of agent a that produced text, or NoAi
ChatHandoffTarget(a, text) ==
    IF a = MODERATOR_AI_ID /\ text # <<>> /\ ExtractName(text) # ""
    THEN AiIdByName(ExtractName(text))
    ELSE NoAi

(***************************************************************************)
(* Store: the Supabase functions upsert_streaming_message and              *)
(* complete_streaming_message, on st = [s |-> sessions, m |-> messages]    *)
(***************************************************************************)
\* the row, had the wrapper left the agent out of the key
RowId_NoAgent(k, a, m) == <<k, NoAi, m>>

\* the row the upsert addresses: the session of (room/thread, agent, source
\* message); its id stands for the uuid of the row
RowId(k, a, m) == <<k, a, m>>
NoSid == <<>>

\* id the upsert returns
UpsertId(st, k, a, m) == RowId(k, a, m)

\* upsert_streaming_message: last write wins
Upsert(st, k, a, m, c, done) ==
    LET row == [content |-> c, complete |-> done]
        i == RowId(k, a, m)
    IN [st EXCEPT !.s = [j \in DOMAIN st.s \cup {i} |-> IF j = i THEN row ELSE st.s[j]]]

\* permanent messages materialized from session i
MessagesOf(ms, i) == {x \in ms : x.sid = i}

\* complete_streaming_message: sets the flag and materializes a Message;
\* a no-op on a session that is already complete
Complete(st, i) ==
    IF i \notin DOMAIN st.s \/ st.s[i].complete THEN st
    ELSE [s |-> [st.s EXCEPT ![i].complete = TRUE],
          m |-> st.m \cup {[sid |-> i, n |-> Cardinality(MessagesOf(st.m, i)) + 1]}]

\* cleanup_incomplete_streaming_messages: complete every incomplete session
\* of the room/thread
IncompleteOf(ss, k) == {i \in DOMAIN ss : i[1] = k /\ ~ss[i].complete}

RECURSIVE CleanupAll(_, _)
CleanupAll(st, todo) ==
    IF todo = {} THEN st
    ELSE LET i == CHOOSE j \in todo : TRUE
         IN CleanupAll(Complete(st, i), todo \ {i})

cleanup_incomplete_streaming_messages(st, k) == CleanupAll(st, IncompleteOf(st.s, k))

\* initialize_streaming_message: cleanup, then an empty incomplete session
initialize_streaming_message(st, k, a, m) ==
    Upsert(cleanup_incomplete_streaming_messages(st, k), k, a, m, <<>>, FALSE)

Store == [s |-> sessions, m |-> messages]
SetStore(st) == sessions' = st.s /\ messages' = st.m

(***************************************************************************)
(* routers/chat.py                                                         *)
(***************************************************************************)
\* chat_stream up to wait_for: the is_locked check (409), then acquire_lock
ChatArrive(t, k, a, m) ==
    /\ pc[t] = "idle" /\ phase[t] = "handler"
    /\ IF ~ValidRequest(k, a, m)
       THEN /\ pc' = [pc EXCEPT ![t] = "invalid"]
            /\ UNCHANGED <<locks, active, olocked, owaiters, mylock, key, ai, umsg>>
       ELSE /\ key' = [key EXCEPT ![t] = k]
            /\ ai' = [ai EXCEPT ![t] = a]
            /\ umsg' = [umsg EXCEPT ![t] = m]
            /\ IF is_locked(k)
               THEN /\ pc' = [pc EXCEPT ![t] = "rejected"]
                    /\ UNCHANGED <<locks, active, olocked, owaiters, mylock>>
               ELSE /\ LMEnter(t, k)
                    /\ pc' = [pc EXCEPT ![t] = "lk_call"]
    /\ UNCHANGED <<phase, sid, full, nchunks, hops, dbvars, threadLock>>

ChatStart(t) == \E k \in InKeys, a \in InAis, m \in InMsgs : ChatArrive(t, k, a, m)

\* chat_stream inside acquire_lock: initialize the session, schedule the
\* background task, return; the finally block of acquire_lock runs
ChatHandlerBody(t) ==
    /\ pc[t] = "lk_got" /\ phase[t] = "handler"
    /\ SetStore(initialize_streaming_message(Store, key[t], ai[t], umsg[t]))
    /\ sid' = [sid EXCEPT ![t] = UpsertId(cleanup_incomplete_streaming_messages(Store, key[t]),
                                          key[t], ai[t], umsg[t])]
    /\ active' = ExitActive(t)
    /\ olocked' = ExitLocked(t)
    /\ locks' = ExitLocks(t)
    /\ pc' = ExitPc(t, "bg_start")
    /\ phase' = [phase EXCEPT ![t] = "bg"]
    /\ mylock' = [mylock EXCEPT ![t] = NoObj]
    /\ UNCHANGED <<owaiters, key, ai, umsg, full, nchunks, hops, threadLock>>

\* the conflict handler, had it written is_complete=False
ConflictHandler_Incomplete(t) ==
    SetStore(Upsert(Store, key[t], ai[t], umsg[t], ErrLockConflict, FALSE))

\* the except ConflictException branch of _process_with_lock_protection
ConflictHandler(t) ==
    SetStore(Upsert(Store, key[t], ai[t], umsg[t], ErrLockConflict, TRUE))

\* _process_with_lock_protection starts: acquire_lock up to wait_for, or the
\* conflict handler when the key is active
BgStart(t) ==
    /\ pc[t] = "bg_start" /\ phase[t] = "bg"
    /\ IF is_locked(key[t])
       THEN /\ ConflictHandler(t)
            /\ pc' = [pc EXCEPT ![t] = "done"]
            /\ UNCHANGED <<locks, active, olocked, owaiters, mylock>>
       ELSE /\ LMEnter(t, key[t])
            /\ pc' = [pc EXCEPT ![t] = "lk_call"]
            /\ UNCHANGED dbvars
    /\ UNCHANGED <<phase, key, reqvars, threadLock>>

\* wait_for times out in the background task: the conflict handler runs
BgTimeout(t) ==
    /\ phase[t] = "bg"
    /\ LMTimeout(t, "done")
    /\ ConflictHandler(t)
    /\ UNCHANGED <<phase, key, reqvars, threadLock>>

(***************************************************************************)
(* ChatOrchestrator.process_streaming_response                             *)
(***************************************************************************)
\* the end of the run, had acquire_lock no finally block
RunLeaves_NoFinally(t, nextpc) ==
    /\ pc' = [pc EXCEPT ![t] = nextpc]
    /\ UNCHANGED <<locks, active, olocked, owaiters, mylock>>

\* the run leaves acquire_lock (phase "bg") or simply ends (phase "chained")
RunLeaves(t, nextpc) ==
    IF phase[t] = "bg"
    THEN /\ active' = ExitActive(t)
         /\ olocked' = ExitLocked(t)
         /\ locks' = ExitLocks(t)
         /\ pc' = ExitPc(t, nextpc)
         /\ mylock' = [mylock EXCEPT ![t] = NoObj]
         /\ UNCHANGED owaiters
    ELSE /\ pc' = [pc EXCEPT ![t] = nextpc]
         /\ UNCHANGED <<locks, active, olocked, owaiters, mylock>>

\* the lookups, had the not-found branches no return: the run goes on to
\* the backend whatever was found
ChatBegin_NoReturn(t) ==
    /\ pc' = [pc EXCEPT ![t] = "streaming"]
    /\ full' = [full EXCEPT ![t] = <<>>]
    /\ nchunks' = [nchunks EXCEPT ![t] = 0]
    /\ active' = IF phase[t] = "bg" THEN active \cup {key[t]} ELSE active
    /\ UNCHANGED <<locks, olocked, owaiters, mylock, dbvars>>

\* the code before the first await: load the agent and the user message
ChatBegin(t) ==
    IF ~HasAiInfo(ai[t])
    THEN /\ SetStore(Upsert(Store, key[t], ai[t], umsg[t], ErrAiNotFound, TRUE))
         /\ RunLeaves(t, "done")
         /\ UNCHANGED <<full, nchunks>>
    ELSE IF ~HasUserMessage(umsg[t])
    THEN /\ SetStore(Upsert(Store, key[t], ai[t], umsg[t], ErrMsgNotFound, TRUE))
         /\ RunLeaves(t, "done")
         /\ UNCHANGED <<full, nchunks>>
    ELSE /\ pc' = [pc EXCEPT ![t] = "streaming"]
         /\ full' = [full EXCEPT ![t] = <<>>]
         /\ nchunks' = [nchunks EXCEPT ![t] = 0]
         /\ active' = IF phase[t] = "bg" THEN active \cup {key[t]} ELSE active
         /\ UNCHANGED <<locks, olocked, owaiters, mylock, dbvars>>

\* the background task resumes with the lock and starts the run
ChatBgEnter(t) ==
    /\ pc[t] = "lk_got" /\ phase[t] = "bg"
    /\ ChatBegin(t)
    /\ UNCHANGED <<phase, key, ai, umsg, sid, hops, threadLock>>

\* the task created by a hand-off starts its run
ChatChainedStart(t) ==
    /\ pc[t] = "p_start" /\ phase[t] = "chained"
    /\ ChatBegin(t)
    /\ UNCHANGED <<phase, key, ai, umsg, sid, hops, threadLock>>

\* one chunk of chain.astream: accumulate and upsert the cumulative text
ChatChunk(t) ==
    /\ pc[t] = "streaming" /\ phase[t] \in {"bg", "chained"}
    /\ nchunks[t] < MaxChunks
    /\ \E c \in Chunks(ai[t] = MODERATOR_AI_ID, full[t]) :
          /\ hops[t] < MaxHops \/ ChatHandoffTarget(ai[t], full[t] \o c) = NoAi
          /\ full' = [full EXCEPT ![t] = @ \o c]
    /\ nchunks' = [nchunks EXCEPT ![t] = @ + 1]
    /\ SetStore(Upsert(Store, key[t], ai[t], umsg[t], full'[t], FALSE))
    /\ UNCHANGED <<lmvars, pc, phase, key, mylock, ai, umsg, sid, hops, threadLock>>

\* the stream raises: the except branch marks the session complete
ChatStreamError(t) ==
    /\ pc[t] = "streaming" /\ phase[t] \in {"bg", "chained"}
    /\ SetStore(Upsert(Store, key[t], ai[t], umsg[t], ErrException, TRUE))
    /\ RunLeaves(t, "done")
    /\ UNCHANGED <<phase, key, reqvars, threadLock>>

\* the stream ends: complete the session, then the hand-off check
ChatStreamEnd(t) ==
    /\ pc[t] = "streaming" /\ phase[t] \in {"bg", "chained"}
    /\ LET target == ChatHandoffTarget(ai[t], full[t])
           st1 == Complete(Store, sid[t])
       IN IF target # NoAi
          THEN /\ SetStore(initialize_streaming_message(st1, key[t], target, umsg[t]))
               /\ sid' = [sid EXCEPT ![t] =
                            UpsertId(cleanup_incomplete_streaming_messages(st1, key[t]),
                                     key[t], target, umsg[t])]
               /\ ai' = [ai EXCEPT ![t] = target]
               /\ hops' = [hops EXCEPT ![t] = @ + 1]
               /\ phase' = [phase EXCEPT ![t] = "chained"]
               /\ RunLeaves(t, "p_start")
          ELSE /\ SetStore(st1)
               /\ RunLeaves(t, "done")
               /\ UNCHANGED <<sid, ai, hops, phase>>
    /\ UNCHANGED <<key, umsg, full, nchunks, threadLock>>

\* the hand-off block raises after the moderator's session was completed:
\* the except branch writes the error text, the run returns
ChatHandoffError(t) ==
    /\ pc[t] = "streaming" /\ phase[t] \in {"bg", "chained"}
    /\ ai[t] = MODERATOR_AI_ID /\ full[t] # <<>>
    /\ SetStore(Upsert(Complete(Store, sid[t]), key[t], ai[t], umsg[t], ErrException, TRUE))
    /\ RunLeaves(t, "done")
    /\ UNCHANGED <<phase, key, reqvars, threadLock>>

InitChat ==
    /\ InitLM
    /\ InitReq
    /\ phase = [t \in Tasks |-> "handler"]

NextChat ==
    \E t \in Tasks :
        \/ ChatStart(t)
        \/ InnerAcquire(t)
        \/ WaiterResume(t)
        \/ WaiterTimeout(t)
        \/ ChatHandlerBody(t)
        \/ BgStart(t)
        \/ BgTimeout(t)
        \/ ChatBgEnter(t)
        \/ ChatChainedStart(t)
        \/ ChatChunk(t)
        \/ ChatStreamError(t)
        \/ ChatStreamEnd(t)
        \/ ChatHandoffError(t)

SpecChat == InitChat /\ [][NextChat]_vars

(***************************************************************************)
(* Thread locks kept in the store: check_thread_lock,                      *)
(* transition_to_ai_lock and release_thread_lock of lock_manager, as       *)
(* routers/qa.py and QAOrchestrator call them.  The field by is not a      *)
(* column: it records which request's call wrote the row.                  *)
(***************************************************************************)
Users == {"u1", "u2"}

\* check_thread_lock: a row whose TTL has elapsed counts as absent
IsThreadLocked(k) == threadLock[k] # NoLock /\ ~threadLock[k].expired

\* acquire_or_transition: None when the request conflicts, else the new row
NoRow == [holder |-> "conflict", kind |-> "none", expired |-> FALSE, by |-> "none"]
acquire_or_transition(k, holder, kind, by) ==
    LET cur == threadLock[k]
        fresh == [holder |-> holder, kind |-> kind, expired |-> FALSE, by |-> by]
    IN IF ~IsThreadLocked(k) THEN fresh
       ELSE IF cur.holder = holder THEN [cur EXCEPT !.expired = FALSE]
       ELSE IF cur.kind = "user_message" /\ kind = "ai_streaming" THEN fresh
       ELSE NoRow

\* transition_to_ai_lock(thread_id, ai_id)
transition_to_ai_lock(k, a, by) == acquire_or_transition(k, a, "ai_streaming", by)

\* release_thread_lock: removes the row only when the holder matches
release_thread_lock(tl, k, holder) ==
    IF tl[k] # NoLock /\ tl[k].holder = holder THEN [tl EXCEPT ![k] = NoLock] ELSE tl

\* the table is in use where routers/qa.py serves the requests
QaMounted == \E t \in Tasks : phase[t] \in {"qa", "qabg", "qachained"}

\* a user starts sending a message to the thread
UserLock(k, u) ==
    /\ QaMounted
    /\ acquire_or_transition(k, u, "user_message", u) # NoRow
    /\ threadLock' = [threadLock EXCEPT ![k] = acquire_or_transition(k, u, "user_message", u)]
    /\ UNCHANGED <<lmvars, pc, phase, key, mylock, reqvars, dbvars>>

\* the TTL of a lock elapses
Expire(k) ==
    /\ QaMounted
    /\ IsThreadLocked(k)
    /\ threadLock' = [threadLock EXCEPT ![k].expired = TRUE]
    /\ UNCHANGED <<lmvars, pc, phase, key, mylock, reqvars, dbvars>>

(***************************************************************************)
(* routers/qa.py                                                           *)
(***************************************************************************)
\* user_message_id values a request to /qa/stream may carry
QaReqMsgs == ReqMsgs

\* the admission test, had it refused every locked thread
QaAdmits_AnyLock(k, user) == ~IsThreadLocked(k)

\* the admission test of qa_stream on the lock status
QaAdmits(k, user) ==
    \/ ~IsThreadLocked(k)
    \/ threadLock[k].kind = "user_message" /\ threadLock[k].holder = user

\* qa_stream (it contains no await): 404, 409, or the lock is taken, the
\* session initialized and the run scheduled
QaArrive(t, k, a, m) ==
    /\ pc[t] = "idle" /\ phase[t] = "qa"
    /\ IF ~ValidRequest(k, a, m)
       THEN /\ pc' = [pc EXCEPT ![t] = "invalid"]
            /\ UNCHANGED <<key, ai, umsg, threadLock, dbvars, sid, phase>>
       ELSE /\ key' = [key EXCEPT ![t] = k]
            /\ ai' = [ai EXCEPT ![t] = a]
            /\ umsg' = [umsg EXCEPT ![t] = m]
            /\ IF HasUserMessage(m) /\ QaAdmits(k, UserMessages[m])
                  /\ transition_to_ai_lock(k, a, t) # NoRow
               THEN /\ threadLock' = [threadLock EXCEPT ![k] = transition_to_ai_lock(k, a, t)]
                    /\ SetStore(initialize_streaming_message(Store, k, a, m))
                    /\ sid' = [sid EXCEPT ![t] =
                                 UpsertId(cleanup_incomplete_streaming_messages(Store, k), k, a, m)]
                    /\ pc' = [pc EXCEPT ![t] = "p_start"]
                    /\ phase' = [phase EXCEPT ![t] = "qabg"]
               ELSE /\ pc' = [pc EXCEPT ![t] = "rejected"]
                    /\ UNCHANGED <<threadLock, dbvars, sid, phase>>
    /\ UNCHANGED <<lmvars, mylock, full, nchunks, hops>>

QaStart(t) == \E k \in InKeys, a \in InAis, m \in InMsgs : QaArrive(t, k, a, m)

(***************************************************************************)
(* QAOrchestrator.process_streaming_response                               *)
(***************************************************************************)
IsModerator(a) == HasAiInfo(a) /\ AiTable[a].is_moderator

\* the code before the first await
QaBegin(t) ==
    /\ pc[t] = "p_start" /\ phase[t] \in {"qabg", "qachained"}
    /\ IF ~HasAiInfo(ai[t])
       THEN /\ SetStore(Upsert(Store, key[t], ai[t], umsg[t], ErrAiNotFound, TRUE))
            /\ pc' = [pc EXCEPT ![t] = "done"]
       ELSE IF ~HasUserMessage(umsg[t])
       THEN /\ SetStore(Upsert(Store, key[t], ai[t], umsg[t], ErrMsgNotFound, TRUE))
            /\ pc' = [pc EXCEPT ![t] = "done"]
       ELSE /\ pc' = [pc EXCEPT ![t] = IF IsModerator(ai[t]) THEN "sync_wait" ELSE "streaming"]
            /\ UNCHANGED dbvars
    /\ full' = [full EXCEPT ![t] = <<>>]
    /\ nchunks' = [nchunks EXCEPT ![t] = 0]
    /\ UNCHANGED <<lmvars, phase, key, mylock, ai, umsg, sid, hops, threadLock>>

\* what _call_professional_sync can return to the moderator pass:
\*   none  no response (the placeholder error text is used)
\*   text  text that is not JSON
\*   json  a JSON object with the fields ai_id and message
\*   other JSON of another shape (reading its fields raises)
SyncResults ==
    {[kind |-> "none", ai_id |-> NoAi, message |-> <<>>],
     [kind |-> "text", ai_id |-> NoAi, message |-> <<"hi">>],
     [kind |-> "other", ai_id |-> NoAi, message |-> <<"[]">>]}
    \cup {[kind |-> "json", ai_id |-> a, message |-> m] :
             a \in {NoAi, "mod", "spec", "ghost"}, m \in {<<>>, <<"hi">>}}
ErrModerator == <<"Error: Failed to get response from moderator">>

\* the hand-off check, had it been skipped
QaHandoffTarget_Skipped(a, r) == NoAi

\* the agent the QA moderator pass hands off to, or NoAi
QaHandoffTarget(a, r) ==
    IF IsModerator(a) /\ r.kind = "json" /\ r.ai_id # NoAi /\ HasAiInfo(r.ai_id)
    THEN r.ai_id
    ELSE NoAi

\* _release_thread_lock: the row after the call; when the call raises (ok
\* is FALSE) the wrapper logs and returns, the row is as it was
ReleaseOrFail(tl, k, holder, ok) == IF ok THEN release_thread_lock(tl, k, holder) ELSE tl

\* the moderator pass after professional-sync returned: parse, save,
\* complete, release the lock, hand off
QaModeratorPass(t, r, ok) ==
    /\ pc[t] = "sync_wait"
    /\ hops[t] < MaxHops \/ QaHandoffTarget(ai[t], r) = NoAi
    /\ IF r.kind = "other"
       THEN \* the outer except: error content, release
            /\ SetStore(Upsert(Store, key[t], ai[t], umsg[t], ErrException, TRUE))
            /\ threadLock' = ReleaseOrFail(threadLock, key[t], ai[t], ok)
            /\ pc' = [pc EXCEPT ![t] = "done"]
            /\ UNCHANGED <<full, sid, ai, hops, phase>>
       ELSE LET saved == IF r.kind = "json"
                         THEN Upsert(Store, key[t], ai[t], umsg[t], r.message, FALSE)
                         ELSE Upsert(Store, key[t], ai[t], umsg[t],
                                     IF r.kind = "none" THEN ErrModerator ELSE r.message, TRUE)
                st1 == Complete(saved, sid[t])
                target == QaHandoffTarget(ai[t], r)
            IN /\ threadLock' = ReleaseOrFail(threadLock, key[t], ai[t], ok)
               /\ full' = [full EXCEPT ![t] = IF r.kind = "none" THEN ErrModerator ELSE r.message]
               /\ IF target # NoAi
                  THEN /\ SetStore(initialize_streaming_message(st1, key[t], target, umsg[t]))
                       /\ sid' = [sid EXCEPT ![t] =
                                    UpsertId(cleanup_incomplete_streaming_messages(st1, key[t]),
                                             key[t], target, umsg[t])]
                       /\ ai' = [ai EXCEPT ![t] = target]
                       /\ hops' = [hops EXCEPT ![t] = @ + 1]
                       /\ phase' = [phase EXCEPT ![t] = "qachained"]
                       /\ pc' = [pc EXCEPT ![t] = "p_start"]
                  ELSE /\ SetStore(st1)
                       /\ pc' = [pc EXCEPT ![t] = "done"]
                       /\ UNCHANGED <<sid, ai, hops, phase>>
    /\ UNCHANGED <<lmvars, key, mylock, umsg, nchunks>>

\* the moderator pass with the store reachable
QaModeratorResultWith(t, r) == QaModeratorPass(t, r, TRUE)

QaModeratorResult(t) == \E r \in SyncResults : QaModeratorResultWith(t, r)

\* one line with status answering of professional-stream
QaChunk(t) ==
    /\ pc[t] = "streaming" /\ phase[t] \in {"qabg", "qachained"}
    /\ nchunks[t] < MaxChunks
    /\ \E c \in Chunks(FALSE, full[t]) : full' = [full EXCEPT ![t] = @ \o c]
    /\ nchunks' = [nchunks EXCEPT ![t] = @ + 1]
    /\ SetStore(Upsert(Store, key[t], ai[t], umsg[t], full'[t], FALSE))
    /\ UNCHANGED <<lmvars, pc, phase, key, mylock, ai, umsg, sid, hops, threadLock>>

\* the end of the run, had it deleted the thread's lock row whoever holds it
QaStreamEnd_ReleaseAny(t) ==
    /\ pc[t] = "streaming" /\ phase[t] \in {"qabg", "qachained"}
    /\ SetStore(Complete(Store, sid[t]))
    /\ threadLock' = [threadLock EXCEPT ![key[t]] = NoLock]
    /\ pc' = [pc EXCEPT ![t] = "done"]
    /\ UNCHANGED <<lmvars, phase, key, mylock, reqvars>>

\* _call_professional_stream returns (status complete, end of the body, an
\* HTTP error or an exception it caught): complete, release the lock
QaStreamEnd(t) ==
    /\ pc[t] = "streaming" /\ phase[t] \in {"qabg", "qachained"}
    /\ SetStore(Complete(Store, sid[t]))
    /\ threadLock' = release_thread_lock(threadLock, key[t], ai[t])
    /\ pc' = [pc EXCEPT ![t] = "done"]
    /\ UNCHANGED <<lmvars, phase, key, mylock, reqvars>>

\* the end of a run whose release call raises (the store is unreachable):
\* _release_thread_lock logs, the run goes on
QaReleaseFails(t) ==
    \/ /\ pc[t] = "streaming" /\ phase[t] \in {"qabg", "qachained"}
       /\ SetStore(Complete(Store, sid[t]))
       /\ pc' = [pc EXCEPT ![t] = "done"]
       /\ UNCHANGED <<lmvars, phase, key, mylock, reqvars, threadLock>>
    \/ \E r \in SyncResults : QaModeratorPass(t, r, FALSE)

\* the HTTP stream raises inside _call_professional_stream: the except
\* branch returns the error text as full_response, which is written
\* nowhere; the caller completes the session as it stands and releases
QaStreamError(t) ==
    /\ pc[t] = "streaming" /\ phase[t] \in {"qabg", "qachained"}
    /\ full' = [full EXCEPT ![t] = ErrException]
    /\ SetStore(Complete(Store, sid[t]))
    /\ threadLock' = release_thread_lock(threadLock, key[t], ai[t])
    /\ pc' = [pc EXCEPT ![t] = "done"]
    /\ UNCHANGED <<lmvars, phase, key, mylock, ai, umsg, sid, nchunks, hops>>

\* the hand-off block of the moderator pass raises, after complete and
\* release: the outer except writes the error text and releases again
QaHandoffError(t) ==
    /\ pc[t] = "sync_wait"
    /\ \E r \in SyncResults :
          /\ r.kind = "json" /\ r.ai_id # NoAi
          /\ full' = [full EXCEPT ![t] = r.message]
          /\ SetStore(Upsert(Complete(Upsert(Store, key[t], ai[t], umsg[t], r.message, FALSE),
                                      sid[t]),
                             key[t], ai[t], umsg[t], ErrException, TRUE))
    /\ threadLock' = release_thread_lock(release_thread_lock(threadLock, key[t], ai[t]),
                                         key[t], ai[t])
    /\ pc' = [pc EXCEPT ![t] = "done"]
    /\ UNCHANGED <<lmvars, phase, key, mylock, ai, umsg, sid, nchunks, hops>>

InitQA ==
    /\ InitLM
    /\ InitReq
    /\ phase = [t \in Tasks |-> "qa"]

NextQA ==
    \/ \E t \in Tasks :
        \/ QaStart(t)
        \/ QaBegin(t)
        \/ QaModeratorResult(t)
        \/ QaChunk(t)
        \/ QaStreamEnd(t)
        \/ QaStreamError(t)
        \/ QaHandoffError(t)
        \/ QaReleaseFails(t)
    \/ \E k \in ReqKeys, u \in Users : UserLock(k, u)
    \/ \E k \in ReqKeys : Expire(k)

SpecQA == InitQA /\ [][NextQA]_vars

(***************************************************************************)
(* routers/qa.py: the error paths of qa_stream after the lock was taken    *)
(***************************************************************************)
\* the thread locks, had the error paths returned without releasing
InitFailLock_Kept(k, a, t) == [threadLock EXCEPT ![k] = transition_to_ai_lock(k, a, t)]

\* the thread locks after transition_to_ai_lock and the release of the
\* error paths (release_thread_lock before the 500, and in the except branch)
InitFailLock(k, a, t) ==
    release_thread_lock([threadLock EXCEPT ![k] = transition_to_ai_lock(k, a, t)], k, a)

\* qa_stream admits the request and takes the lock, then
\* initialize_streaming_message returns None or an unexpected error is
\* raised before add_task: cleaned tells whether cleanup_incomplete had
\* completed the thread's open sessions by then
QaInitFails(t, k, a, m, cleaned) ==
    /\ pc[t] = "idle" /\ phase[t] = "qa"
    /\ ValidRequest(k, a, m)
    /\ HasUserMessage(m) /\ QaAdmits(k, UserMessages[m])
    /\ transition_to_ai_lock(k, a, t) # NoRow
    /\ key' = [key EXCEPT ![t] = k]
    /\ ai' = [ai EXCEPT ![t] = a]
    /\ umsg' = [umsg EXCEPT ![t] = m]
    /\ threadLock' = InitFailLock(k, a, t)
    /\ SetStore(IF cleaned THEN cleanup_incomplete_streaming_messages(Store, k) ELSE Store)
    /\ pc' = [pc EXCEPT ![t] = "error500"]
    /\ UNCHANGED <<lmvars, mylock, phase, sid, full, nchunks, hops>>

QaStartFails(t) ==
    \E k \in ReqKeys, a \in ReqAis, m \in QaReqMsgs, cleaned \in BOOLEAN :
        QaInitFails(t, k, a, m, cleaned)

NextQAFail == NextQA \/ \E t \in Tasks : QaStartFails(t)

SpecQAFail == InitQA /\ [][NextQAFail]_vars

(***************************************************************************)
(* The QA moderator answers in the textual form of the chat moderator:     *)
(* text that is not JSON and holds a marked span                           *)
(***************************************************************************)
MarkedResults == {[kind |-> "text", ai_id |-> NoAi, message |-> <<"hi", x>>] : x \in Marked}

QaModeratorMarked(t) == \E r \in MarkedResults : QaModeratorPass(t, r, TRUE)

NextQAText == NextQA \/ \E t \in Tasks : QaModeratorMarked(t)

SpecQAText == InitQA /\ [][NextQAText]_vars

(***************************************************************************)
(* routers/qa.py with the two calls on the lock table as two steps: the    *)
(* table is in the store, where the users' clients write their locks       *)
(* between the two round trips of qa_stream                                *)
(***************************************************************************)
\* qa_stream up to the result of check_thread_lock: 400, 404, 409, or the
\* request goes on to transition_to_ai_lock
QaCheck(t, k, a, m) ==
    /\ pc[t] = "idle" /\ phase[t] = "qa"
    /\ IF ~ValidRequest(k, a, m)
       THEN /\ pc' = [pc EXCEPT ![t] = "invalid"]
            /\ UNCHANGED <<key, ai, umsg>>
       ELSE /\ key' = [key EXCEPT ![t] = k]
            /\ ai' = [ai EXCEPT ![t] = a]
            /\ umsg' = [umsg EXCEPT ![t] = m]
            /\ pc' = [pc EXCEPT ![t] =
                        IF HasUserMessage(m) /\ QaAdmits(k, UserMessages[m])
                        THEN "checked" ELSE "rejected"]
    /\ UNCHANGED <<lmvars, mylock, phase, sid, full, nchunks, hops, dbvars, threadLock>>

QaCheckStart(t) == \E k \in InKeys, a \in InAis, m \in InMsgs : QaCheck(t, k, a, m)

\* qa_stream from transition_to_ai_lock on: 409, or the lock is taken, the
\* session initialized and the run scheduled
QaTransit(t) ==
    /\ pc[t] = "checked" /\ phase[t] = "qa"
    /\ IF transition_to_ai_lock(key[t], ai[t], t) # NoRow
       THEN /\ threadLock' = [threadLock EXCEPT ![key[t]] = transition_to_ai_lock(key[t], ai[t], t)]
            /\ SetStore(initialize_streaming_message(Store, key[t], ai[t], umsg[t]))
            /\ sid' = [sid EXCEPT ![t] =
                         UpsertId(cleanup_incomplete_streaming_messages(Store, key[t]),
                                  key[t], ai[t], umsg[t])]
            /\ pc' = [pc EXCEPT ![t] = "p_start"]
            /\ phase' = [phase EXCEPT ![t] = "qabg"]
       ELSE /\ pc' = [pc EXCEPT ![t] = "rejected"]
            /\ UNCHANGED <<threadLock, dbvars, sid, phase>>
    /\ UNCHANGED <<lmvars, mylock, key, ai, umsg, full, nchunks, hops>>

NextQARace ==
    \/ \E t \in Tasks :
        \/ QaCheckStart(t)
        \/ QaTransit(t)
        \/ QaBegin(t)
        \/ QaModeratorResult(t)
        \/ QaChunk(t)
        \/ QaStreamEnd(t)
        \/ QaStreamError(t)
        \/ QaHandoffError(t)
        \/ QaReleaseFails(t)
    \/ \E k \in ReqKeys, u \in Users : UserLock(k, u)
    \/ \E k \in ReqKeys : Expire(k)

SpecQARace == InitQA /\ [][NextQARace]_vars

(***************************************************************************)
(* The service with one of the two routers mounted (main.py mounts the     *)
(* chat router; routers/qa.py is the alternative entry point)              *)
(***************************************************************************)
InitAll ==
    /\ InitLM
    /\ InitReq
    /\ phase \in {[t \in Tasks |-> "handler"], [t \in Tasks |-> "qa"]}

NextAll == NextChat \/ NextQA

Spec == InitAll /\ [][NextAll]_vars

\* a step by which the coroutine of request t continues once it is ready:
\* the event loop resumes it, the timer of wait_for fires, the backend's
\* stream or response ends
RunStep(t) ==
    \/ InnerAcquire(t) \/ WaiterResume(t) \/ BgTimeout(t)
    \/ BgStart(t) \/ ChatBgEnter(t) \/ ChatChainedStart(t)
    \/ ChatStreamError(t) \/ ChatStreamEnd(t) \/ ChatHandoffError(t)
    \/ QaBegin(t) \/ QaModeratorResult(t) \/ QaStreamEnd(t) \/ QaStreamError(t)
    \/ QaHandoffError(t) \/ QaReleaseFails(t)

FairSpec == Spec /\ \A t \in Tasks : WF_vars(RunStep(t))

\* the steps of request t that depend on the event loop alone, not on the
\* generation backend answering
LoopStep(t) ==
    \/ InnerAcquire(t) \/ WaiterResume(t) \/ WaiterTimeout(t) \/ BgTimeout(t)
    \/ ChatHandlerBody(t) \/ BgStart(t) \/ ChatBgEnter(t) \/ ChatChainedStart(t)
    \/ QaBegin(t)

\* the loop runs what is ready and time passes, while a backend may stall
StallSpec ==
    /\ Spec
    /\ \A t \in Tasks : WF_vars(LoopStep(t))
    /\ \A k \in ReqKeys : WF_vars(Expire(k))

(***************************************************************************)
(* Vocabulary of the properties                                            *)
(***************************************************************************)
\* t is inside the body of acquire_lock
InBody(t) ==
    \/ pc[t] = "t_body"
    \/ pc[t] = "streaming" /\ phase[t] = "bg"

\* a pipeline run (process_streaming_response) of t is between its first
\* and its last statement
Running(t) == pc[t] \in {"streaming", "sync_wait"}

\* t has a session and its processing has not ended
Live(t) == sid[t] # NoSid /\ pc[t] # "done"

\* the thread of t is locked on behalf of t's request
HoldsLock(t) ==
    \/ InBody(t)
    \/ IsThreadLocked(key[t]) /\ threadLock[key[t]].by = t

(***************************************************************************)
(* C1  Mutual exclusion: at no instant are two callers inside the body of  *)
(* acquire_lock for the same room/thread key.                              *)
(***************************************************************************)
C1_MutualExclusion ==
    \A t, u \in Tasks : (t # u /\ InBody(t) /\ InBody(u)) => key[t] # key[u]

C3_LockReleased ==
    \A t \in Tasks : pc[t] = "done" => ~HoldsLock(t) /\ mylock[t] = NoObj

(***************************************************************************)
(* C4  At any instant at most one pipeline run is in progress for a        *)
(* thread, and it holds the thread's lock.                                 *)
(***************************************************************************)
C4_OneRunPerThread ==
    /\ \A t, u \in Tasks : (t # u /\ Running(t) /\ Running(u)) => key[t] # key[u]
    /\ \A t \in Tasks : Running(t) => HoldsLock(t)

(***************************************************************************)
(* C5  At most one session per room/thread has completion flag false.      *)
(***************************************************************************)
C5_OneIncompleteSession ==
    \A k \in Keys : Cardinality(IncompleteOf(sessions, k)) <= 1

(***************************************************************************)
(* C6  finalize is idempotent: however often a session is finalized, one   *)
(* permanent Message is materialized from it.                              *)
(***************************************************************************)
C6_OneMessagePerSession ==
    \A i \in DOMAIN sessions : Cardinality(MessagesOf(messages, i)) <= 1

(***************************************************************************)
(* C7  A complete session is immutable: no step changes the content or     *)
(* the completion flag of a session whose completion flag is true.         *)
(***************************************************************************)
C7_ImmutableOnceComplete ==
    [][\A i \in DOMAIN sessions : sessions[i].complete => sessions'[i] = sessions[i]]_vars

(***************************************************************************)
(* C8  The lock covers the life of a session: while a session is           *)
(* incomplete, the thread's lock is held on behalf of its request.         *)
(***************************************************************************)
C8_LockCoversSession ==
    \A i \in DOMAIN sessions :
        ~sessions[i].complete => \E t \in Tasks : sid[t] = i /\ HoldsLock(t)

(***************************************************************************)
(* C9  Depth bound: one request causes at most one hand-off.               *)
(***************************************************************************)
C9_OneHop == \A t \in Tasks : hops[t] <= 1

(***************************************************************************)
(* C10  A hand-off happens only after a run of the moderator whose         *)
(* finalized content is non-empty.                                         *)
(***************************************************************************)
C10_HandoffOnlyAfterModeratorText ==
    [][\A t \in Tasks :
          hops'[t] > hops[t] =>
              /\ IsModerator(ai[t])
              /\ full'[t] # <<>>
              /\ sid'[t] # sid[t] => sessions'[sid[t]].content # <<>>]_vars

(***************************************************************************)
(* C11  The run chained by a hand-off owns the thread's lock: while it is  *)
(* in progress, and whenever it writes to its session, the lock is held on *)
(* behalf of its request.                                                  *)
(***************************************************************************)
Chained(t) == phase[t] \in {"chained", "qachained"}

C11_ChainedRunOwnsLock ==
    \A t \in Tasks : (Chained(t) /\ Running(t)) => HoldsLock(t)

(***************************************************************************)
(* C12  When the generation backend fails mid-stream for a non-moderator   *)
(* agent after some increments were appended, the step that handles the    *)
(* failure leaves the session complete with the error text as content,     *)
(* the lock released, and no hand-off made.                                *)
(***************************************************************************)
C12_BackendFailure ==
    [][\A t \in Tasks :
          ((ChatStreamError(t) \/ QaStreamError(t))
              /\ ~IsModerator(ai[t]) /\ nchunks[t] > 0) =>
              /\ sessions'[sid[t]].complete
              /\ sessions'[sid[t]].content = ErrException
              /\ ~HoldsLock(t)'
              /\ hops'[t] = hops[t]]_vars

(***************************************************************************)
(* C13  When the agent profile or the source message cannot be loaded,     *)
(* the step that starts the run ends it: the session is complete with the  *)
(* error text as content, the run never reaches the generation backend,    *)
(* makes no hand-off and returns normally.                                 *)
(***************************************************************************)
StartsRun(t) == ChatBgEnter(t) \/ ChatChainedStart(t) \/ QaBegin(t)

C13_NotFoundStops ==
    [][\A t \in Tasks :
          (StartsRun(t) /\ (~HasAiInfo(ai[t]) \/ ~HasUserMessage(umsg[t]))) =>
              /\ sessions'[sid[t]].complete
              /\ sessions'[sid[t]].content =
                     (IF ~HasAiInfo(ai[t]) THEN ErrAiNotFound ELSE ErrMsgNotFound)
              /\ pc'[t] = "done"
              /\ hops'[t] = hops[t] /\ sid'[t] = sid[t] /\ full'[t] = <<>>]_vars

\* a run has stopped on a lookup that found nothing
C13_Witness ==
    \E t \in Tasks :
        /\ pc[t] = "done" /\ (~HasAiInfo(ai[t]) \/ ~HasUserMessage(umsg[t]))
        /\ sessions[sid[t]] \in {[content |-> ErrAiNotFound, complete |-> TRUE],
                                 [content |-> ErrMsgNotFound, complete |-> TRUE]}
        /\ ~Running(t) /\ hops[t] = 0

(***************************************************************************)
(* C14  Acquisition fails fast and is not queued: an attempt that found    *)
(* the lock taken and is waiting for it never obtains the lock later in    *)
(* the same call.                                                          *)
(***************************************************************************)
Queued(t) == pc[t] \in {"lk_wait", "lk_woken"}

C14_NeverObtainsLater ==
    [][\A t \in Tasks : Queued(t) => pc'[t] # "lk_got"]_vars

(***************************************************************************)
(* C15  Among the concurrent attempts of one batch on a key, where the     *)
(* winner holds the lock longer than the acquire timeout: no waiting       *)
(* attempt is ever handed the lock, at most one attempt is in or past the  *)
(* locked region, and when the batch is over exactly one attempt has       *)
(* succeeded and every other one has failed with ConflictException.        *)
(***************************************************************************)
Winners(k) == {t \in Tasks : key[t] = k /\ pc[t] \in {"lk_got", "t_body", "success"}}
Attempted(k) == {t \in Tasks : key[t] = k /\ pc[t] # "idle"}
BatchOver == \A t \in Tasks : pc[t] \in {"success", "failed"}

C15_ExactlyOneWinner ==
    /\ \A t \in Tasks : pc[t] # "lk_woken"
    /\ \A k \in Keys : Cardinality(Winners(k)) <= 1
    /\ BatchOver =>
          \A k \in Keys : Attempted(k) # {} => Cardinality(Winners(k)) = 1

\* a batch of two attempts on one key is over: one won, one lost
C15_Witness ==
    /\ BatchOver
    /\ \E t, u \in Tasks :
          t # u /\ key[t] = key[u] /\ pc[t] = "success" /\ pc[u] = "failed"

(***************************************************************************)
(* C16  A request that arrives at chat_stream while another request for    *)
(* the same room/thread is between its admission and the end of its        *)
(* background processing is rejected (409) and creates no session.         *)
(***************************************************************************)
BeingProcessed(k) == {u \in Tasks : Live(u) /\ key[u] = k}

C16_RejectsWhileProcessing ==
    [][\A t \in Tasks :
          (ChatStart(t) /\ pc'[t] # "invalid" /\ BeingProcessed(key'[t]) \ {t} # {}) =>
              /\ pc'[t] = "rejected"
              /\ sessions' = sessions]_vars

(***************************************************************************)
(* C17  No thread is locked out permanently: whatever a holder does, stall *)
(* included, its lock lapses with time and the thread is again free for    *)
(* the next acquire attempt.                                               *)
(***************************************************************************)
Locked(k) == is_locked(k) \/ IsThreadLocked(k)

C17_NoPermanentLockout == \A k \in ReqKeys : []<>(~Locked(k))

(***************************************************************************)
(* C18  Ownership upgrade: when the thread's lock is a live user_message   *)
(* lock held by the sender of the request's message, qa_stream admits the  *)
(* request and the lock becomes (ai_streaming, the requested agent).       *)
(***************************************************************************)
UserHeld(k, u) ==
    /\ IsThreadLocked(k)
    /\ threadLock[k].kind = "user_message"
    /\ threadLock[k].holder = u

C18_OwnershipUpgrade ==
    [][\A t \in Tasks :
          (/\ QaStart(t)
           /\ HasUserMessage(umsg'[t])
           /\ UserHeld(key'[t], UserMessages[umsg'[t]])) =>
              /\ pc'[t] = "p_start"
              /\ threadLock'[key'[t]].holder = ai'[t]
              /\ threadLock'[key'[t]].kind = "ai_streaming"
              /\ ~threadLock'[key'[t]].expired]_vars

\* a request is about to arrive on a thread its message's sender has locked
C18_Witness ==
    \E t \in Tasks, k \in ReqKeys, m \in DOMAIN UserMessages :
        /\ pc[t] = "idle" /\ phase[t] = "qa"
        /\ UserHeld(k, UserMessages[m])

(***************************************************************************)
(* C19  An acquire attempt on a thread whose live lock belongs to another  *)
(* holder, the upgrade not applying, ends in Conflict and leaves the lock  *)
(* as it was: qa_stream answers 409 without touching the lock row, and an  *)
(* attempt that acquire_lock has queued behind a holder is never handed    *)
(* the lock.                                                               *)
(***************************************************************************)
\* qa_stream arrives for agent ai'[t] on a thread locked by someone else
QaConflictCase(t) ==
    /\ QaStart(t) /\ pc'[t] # "invalid"
    /\ IsThreadLocked(key'[t])
    /\ threadLock[key'[t]].holder # ai'[t]
    /\ ~(HasUserMessage(umsg'[t]) /\ UserHeld(key'[t], UserMessages[umsg'[t]]))

QaConflictKeepsLock ==
    \A t \in Tasks :
        QaConflictCase(t) => pc'[t] = "rejected" /\ threadLock' = threadLock

QueuedStaysOut == \A t \in Tasks : pc[t] = "lk_wait" => pc'[t] # "lk_woken"

C19_ConflictKeepsLock == [][QaConflictKeepsLock /\ QueuedStaysOut]_vars

(***************************************************************************)
(* C20  An acquire attempt for the holder that already holds the thread's  *)
(* live lock is a refresh: qa_stream does not answer Conflict, and the     *)
(* lock keeps its holder and its kind.                                     *)
(***************************************************************************)
SameHolderCase(t) ==
    /\ QaStart(t)
    /\ HasUserMessage(umsg'[t])
    /\ IsThreadLocked(key'[t])
    /\ threadLock[key'[t]].holder = ai'[t]

C20_SameHolderRefresh ==
    [][\A t \in Tasks :
          SameHolderCase(t) =>
              /\ pc'[t] # "rejected"
              /\ threadLock'[key'[t]].holder = threadLock[key'[t]].holder
              /\ threadLock'[key'[t]].kind = threadLock[key'[t]].kind]_vars

(***************************************************************************)
(* C21  The release at the end of a run removes the thread's lock only     *)
(* when the releasing agent is its holder, and the thread is then          *)
(* unlocked; a release by anyone else leaves the lock as it is and the run *)
(* ends as usual.                                                          *)
(***************************************************************************)
Releases(t) == QaStreamEnd(t) \/ QaStreamError(t) \/ QaModeratorResult(t) \/ QaHandoffError(t)

C22_SecondInitialize ==
    [][\A t \in Tasks :
          (ChatHandlerBody(t) /\ IncompleteOf(sessions, key[t]) # {}) =>
              /\ IncompleteOf(sessions', key[t]) = {sid'[t]}
              /\ sessions'[sid'[t]].content = <<>>
              /\ \A i \in IncompleteOf(sessions, key[t]) : sessions'[i].complete]_vars

(***************************************************************************)
(* C23  A hand-off to a specialist creates a new, empty, incomplete        *)
(* session for the specialist against the same source message, under an   *)
(* id that is not the moderator's; the moderator's session is complete    *)
(* after the hand-off and keeps the moderator's content.                   *)
(***************************************************************************)
IsSpecialist(a) == HasAiInfo(a) /\ ~AiTable[a].is_moderator
HandsOff(t) == (ChatStreamEnd(t) \/ QaModeratorResult(t)) /\ hops'[t] = hops[t] + 1

C23_HandoffNewSession ==
    [][\A t \in Tasks :
          (HandsOff(t) /\ IsSpecialist(ai'[t])) =>
              /\ sid'[t] # sid[t]
              /\ sid'[t] = RowId(key[t], ai'[t], umsg[t])
              /\ sessions'[sid'[t]] = [content |-> <<>>, complete |-> FALSE]
              /\ sid[t] \in DOMAIN sessions'
              /\ sessions'[sid[t]].complete
              /\ sessions'[sid[t]].content =
                    (IF phase[t] \in {"bg", "chained"}
                     THEN sessions[sid[t]].content ELSE full'[t])]_vars

\* a specialist's chained run is about to start, next to the moderator's
\* finalized session
C23_Witness ==
    \E t \in Tasks :
        /\ hops[t] >= 1 /\ pc[t] = "p_start" /\ IsSpecialist(ai[t])
        /\ sessions[sid[t]] = [content |-> <<>>, complete |-> FALSE]
        /\ RowId(key[t], MODERATOR_AI_ID, umsg[t]) \in DOMAIN sessions
        /\ sessions[RowId(key[t], MODERATOR_AI_ID, umsg[t])].complete

(***************************************************************************)
(* C24  When the moderator's finalized content names a target that does    *)
(* not resolve (a marked name no agent of the room bears, an ai_id no      *)
(* agent has), no session is created, the run ends without a hand-off, and *)
(* the moderator's session stays finalized with the moderator's content.   *)
(***************************************************************************)
\* the names, in lower case, of the active agents of the room
RoomNames == {Lower(AiTable[a].name) : a \in RoomAi \cap AiIds}

\* the chat moderator ends its stream on text whose marked name is unknown
ChatUnresolved(t) ==
    /\ ChatStreamEnd(t)
    /\ ai[t] = MODERATOR_AI_ID
    /\ ExtractName(full[t]) # ""
    /\ Lower(ExtractName(full[t])) \notin RoomNames

\* the QA moderator's answer selects an ai_id that is in no row of table ai
QaUnresolved(t) ==
    \E r \in SyncResults :
        /\ r.kind = "json" /\ r.ai_id # NoAi /\ ~HasAiInfo(r.ai_id)
        /\ QaModeratorResultWith(t, r)

C24_UnresolvedStops ==
    [][\A t \in Tasks :
          (ChatUnresolved(t) \/ QaUnresolved(t)) =>
              /\ DOMAIN sessions' = DOMAIN sessions
              /\ IncompleteOf(sessions', key[t]) \subseteq IncompleteOf(sessions, key[t]) \ {sid[t]}
              /\ sessions'[sid[t]].complete
              /\ sessions'[sid[t]].content =
                    (IF ChatUnresolved(t) THEN sessions[sid[t]].content ELSE full'[t])
              /\ pc'[t] = "done"
              /\ hops'[t] = hops[t] /\ sid'[t] = sid[t] /\ ai'[t] = ai[t]]_vars

\* a chat moderator's run has ended on text that names Bob, whom the room
\* does not know
C24_Witness ==
    \E t \in Tasks :
        /\ pc[t] = "done" /\ ai[t] = MODERATOR_AI_ID /\ phase[t] \in {"bg", "chained"}
        /\ ExtractName(full[t]) = "Bob"
        /\ sessions[sid[t]].complete

(***************************************************************************)
(* C25  A hand-off only ever goes to an agent of the room's active roster  *)
(* that is not a moderator.                                                *)
(***************************************************************************)
C25_TargetIsRoomSpecialist ==
    [][\A t \in Tasks :
          HandsOff(t) => ai'[t] \in RoomAi /\ IsSpecialist(ai'[t])]_vars

(***************************************************************************)
(* C26  An error raised in the hand-off logic at the end of a moderator's  *)
(* run never leaves the thread locked: the run ends, the key is no longer  *)
(* active and its lock object is free (chat), no lock row held for the     *)
(* request remains (QA).                                                   *)
(***************************************************************************)
C26_HandoffErrorReleases ==
    [][\A t \in Tasks :
          (ChatHandoffError(t) \/ QaHandoffError(t)) =>
              /\ pc'[t] = "done"
              /\ ~HoldsLock(t)'
              /\ phase[t] = "bg" => key[t] \notin active' /\ ~olocked'[mylock[t]]
              /\ phase[t] = "qabg" =>
                    ~(threadLock'[key[t]].holder = ai[t] /\ threadLock'[key[t]].by = t)]_vars

\* a moderator's run that held the lock has ended on the error text of the
\* hand-off's except branch, its answer materialized before
C26_Witness ==
    \E t \in Tasks :
        /\ pc[t] = "done" /\ phase[t] \in {"bg", "qabg"} /\ IsModerator(ai[t])
        /\ sessions[sid[t]] = [content |-> ErrException, complete |-> TRUE]
        /\ MessagesOf(messages, sid[t]) # {}
        /\ ~HoldsLock(t)

(***************************************************************************)
(* C27  A release that fails because the store is unreachable does not     *)
(* stop the run: the session is finalized, the lock row is as it was, and  *)
(* the hand-off check that follows the release still takes place, so a     *)
(* moderator whose answer selects an existing agent still hands off.  The  *)
(* session of the run is complete afterwards, unless the hand-off itself   *)
(* has initialized that very session anew for the selected agent.          *)
(***************************************************************************)
Selects(r) == r.kind = "json" /\ r.ai_id # NoAi /\ HasAiInfo(r.ai_id)

C27_FailedReleaseGoesOn ==
    [][\A t \in Tasks :
          /\ QaReleaseFails(t) =>
                /\ sid'[t] # sid[t] \/ hops'[t] = hops[t] => sessions'[sid[t]].complete
                /\ threadLock' = threadLock
                /\ pc'[t] \in {"done", "p_start"}
          /\ \A r \in SyncResults :
                (QaModeratorPass(t, r, FALSE) /\ Selects(r)) =>
                    /\ pc'[t] = "p_start" /\ hops'[t] = hops[t] + 1
                    /\ ai'[t] = r.ai_id
                    /\ sessions'[sid'[t]] = [content |-> <<>>, complete |-> FALSE]]_vars

\* a chained run is about to start though the moderator's lock row is
\* still there: its release had failed
C27_Witness ==
    \E t \in Tasks :
        /\ hops[t] = 1 /\ pc[t] = "p_start" /\ phase[t] = "qachained"
        /\ threadLock[key[t]].by = t
        /\ threadLock[key[t]].holder = MODERATOR_AI_ID

(***************************************************************************)
(* C28  In a run of an agent that is not a moderator, each increment is    *)
(* appended to what was accumulated and the session is written with the    *)
(* accumulated text; when the stream ends the session is complete and its  *)
(* content is the concatenation of all the increments of the run.          *)
(***************************************************************************)
Increment(t) == (ChatChunk(t) \/ QaChunk(t)) /\ ~IsModerator(ai[t])
StreamEnds(t) == (ChatStreamEnd(t) \/ QaStreamEnd(t)) /\ ~IsModerator(ai[t])

C28_ContentIsConcatenation ==
    [][\A t \in Tasks :
          /\ Increment(t) =>
                /\ Len(full'[t]) = Len(full[t]) + 1
                /\ SubSeq(full'[t], 1, Len(full[t])) = full[t]
                /\ sessions'[sid[t]].content = full'[t]
          /\ StreamEnds(t) =>
                sessions'[sid[t]] = [content |-> full[t], complete |-> TRUE]]_vars

(***************************************************************************)
(* C29  A request with an empty room_id, thread_id, ai_id or               *)
(* user_message_id is answered 400 and nothing else changes: no lock is    *)
(* looked up, taken or changed, no session is created or finalized, no     *)
(* background run is scheduled.                                            *)
(***************************************************************************)
EmptyField(k, a, m) == k = "" \/ a = "" \/ m = ""

C29_InvalidNoSideEffect ==
    [][\A t \in Tasks, k \in InKeys, a \in InAis, m \in InMsgs :
          ((ChatArrive(t, k, a, m) \/ QaArrive(t, k, a, m)) /\ EmptyField(k, a, m)) =>
              /\ pc' = [pc EXCEPT ![t] = "invalid"]
              /\ UNCHANGED <<lmvars, phase, key, mylock, reqvars, dbvars, threadLock>>]_vars

\* a request has been answered 400 while another one was being processed
C29_Witness ==
    \E t, u \in Tasks :
        /\ pc[t] = "invalid" /\ sid[t] = NoSid /\ mylock[t] = NoObj
        /\ Live(u)

(***************************************************************************)
(* C30  The background task of an admitted chat_stream request is not      *)
(* refused the lock: when _process_with_lock_protection calls acquire_lock *)
(* the key is not active, so the task goes on to acquire and does not end  *)
(* in the ConflictException handler.                                       *)
(***************************************************************************)
C30_BackgroundGetsLock ==
    [][\A t \in Tasks : BgStart(t) => pc'[t] = "lk_call" /\ sessions' = sessions]_vars

\* C31: when the body under acquire_lock raises, the finally block has run
\* by the time the exception reaches the caller: the key is out of the
\* active set and the caller's lock object is released; and a call of
\* acquire_lock that finds the key inactive and its lock object free obtains
\* the lock.
C31_CleanupOnException ==
    [][\A t \in Tasks :
          /\ TestRaise(t) =>
                /\ pc'[t] = "raised"
                /\ key[t] \notin active'
                /\ ~olocked'[mylock[t]]
                /\ mylock'[t] = NoObj
          /\ /\ pc[t] = "lk_call" /\ phase[t] = "test"
             /\ ~olocked[mylock[t]] /\ owaiters[mylock[t]] = <<>>
             /\ InnerAcquire(t)
             => pc'[t] = "lk_got" /\ olocked'[mylock[t]]]_vars

\* a body has raised, and a later call for the same key is inside its body
C31_Witness ==
    \E t, u \in Tasks :
        /\ t # u /\ key[t] = key[u]
        /\ pc[t] = "raised" /\ pc[u] = "t_body"
        /\ active = {key[u]}

\* a caller holds or waits for the lock of key k
InUse(k) ==
    \E t \in Tasks :
        key[t] = k /\ pc[t] \in {"lk_call", "lk_wait", "lk_woken", "lk_got", "t_body"}

\* C32: whenever no caller holds or waits for the lock of a key, the key is
\* in neither the active set (get_active_locks) nor the lock map
\* (get_lock_count).
C32_NoLockObjectLeak ==
    \A k \in Keys : ~InUse(k) => k \notin active /\ locks[k] = NoObj

\* C33: when qa_stream fails after it took the AI lock (the session cannot
\* be initialized, or an unexpected error is raised before the run is
\* scheduled), the request is answered with the error, the thread's lock is
\* released, and no background run is scheduled: the request owns no
\* session and stays in the handler's phase.
C33_InitFailureReleases ==
    [][\A t \in Tasks : QaStartFails(t) =>
          /\ pc'[t] = "error500"
          /\ threadLock'[key'[t]] = NoLock
          /\ phase'[t] = "qa" /\ sid'[t] = sid[t]
          /\ DOMAIN sessions' = DOMAIN sessions]_vars

\* a request has failed that way and owns no run, while another request for
\* the thread holds the lock and runs
C33_Witness ==
    \E t, u \in Tasks :
        /\ t # u /\ pc[t] = "error500" /\ phase[t] = "qa" /\ key[u] = key[t]
        /\ pc[u] \in {"p_start", "streaming"} /\ phase[u] = "qabg"
        /\ IsThreadLocked(key[u]) /\ threadLock[key[u]].by = u

\* the moderator's output is no hand-off directive: nothing came back, or
\* text that is not JSON, or JSON that is not an object
Unparsable(r) == r.kind \in {"none", "text", "other"}

\* the text the moderator pass works on: the output, or the placeholder
RawText(r) == IF r.kind = "none" THEN ErrModerator ELSE r.message

\* C34: when the moderator's output cannot be parsed as a hand-off
\* directive, the raw text (the placeholder error text when nothing came
\* back) is the content of the session, the session is complete, the lock
\* of the moderator is released and there is no hand-off.
C34_UnparsableIsSavedRaw ==
    [][\A t \in Tasks, r \in SyncResults :
          Unparsable(r) /\ QaModeratorResultWith(t, r) =>
              /\ sessions'[sid[t]] = [content |-> RawText(r), complete |-> TRUE]
              /\ ~(IsThreadLocked(key[t])' /\ threadLock'[key[t]].holder = ai[t])
              /\ pc'[t] = "done" /\ hops'[t] = hops[t] /\ sid'[t] = sid[t]]_vars

\* C35: the hand-off of the moderator pass uses the target of a structured
\* directive when the output holds one, and when it holds none but a marked
\* span naming an agent of the room, the hand-off is made to that agent.
C35_StructuredThenTextual ==
    [][\A t \in Tasks :
          /\ \A r \in SyncResults :
                /\ r.kind = "json" /\ r.ai_id \in AiIds /\ hops[t] < MaxHops
                /\ QaModeratorPass(t, r, TRUE)
                => ai'[t] = r.ai_id /\ hops'[t] = hops[t] + 1
          /\ \A r \in MarkedResults :
                /\ Lower(ExtractName(r.message)) \in RoomNames /\ hops[t] < MaxHops
                /\ QaModeratorPass(t, r, TRUE)
                => /\ ai'[t] \in RoomAi
                   /\ Lower(AiTable[ai'[t]].name) = Lower(ExtractName(r.message))
                   /\ hops'[t] = hops[t] + 1]_vars

\* the callers inside the body of acquire_lock for key k
BodyOf(k) == {t \in Tasks : InBody(t) /\ key[t] = k}

\* the callers that hold or wait for a lock object of key k
UsersOf(k) ==
    {t \in Tasks : key[t] = k /\ mylock[t] # NoObj
                   /\ pc[t] \notin {"idle", "failed", "rejected", "success", "raised", "done"}}

\* C36: a key is in the active set (is_locked is True) exactly when one
\* caller is inside the body of acquire_lock for it, that caller holds the
\* lock object stored for the key, and all holders and waiters of a key use
\* one lock object.
C36_ActiveIffHeld ==
    \A k \in Keys :
        /\ is_locked(k) <=> Cardinality(BodyOf(k)) = 1
        /\ \A t \in BodyOf(k) : mylock[t] = locks[k] /\ olocked[mylock[t]]
        /\ \A t, u \in UsersOf(k) : mylock[t] = mylock[u]

\* C37: locks of distinct (room_id, thread_id) pairs are independent: while
\* no two requests are for the same pair, no request is refused (neither
\* by is_locked nor by a ConflictException of acquire_lock), and is_locked
\* is True for a pair only while the client of that pair is inside the body
\* for it.
C37_PairsIndependent ==
    \A t \in Tasks :
        /\ pc[t] # "failed"
        /\ \A p \in PairsOf(t) :
              is_locked(get_lock_key(p[1], p[2])) =>
                  pc[t] = "t_body" /\ key[t] = get_lock_key(p[1], p[2])

\* C38: qa_stream turns a user_message lock into an ai_streaming lock only
\* for a request whose source message was sent by the user holding that
\* lock.
C38_UpgradeOnlyForHolder ==
    [][\A t \in Tasks :
          /\ QaTransit(t)
          /\ IsThreadLocked(key[t]) /\ threadLock[key[t]].kind = "user_message"
          /\ threadLock'[key[t]].kind = "ai_streaming"
          => threadLock[key[t]].holder = UserMessages[umsg[t]]]_vars

\* the pipeline run of u for its session has not ended: it is scheduled,
\* waits for the lock, or is generating
Unfinished(u) ==
    /\ sid[u] # NoSid
    /\ pc[u] \in {"bg_start", "lk_call", "lk_wait", "lk_woken", "lk_got",
                  "p_start", "streaming", "sync_wait"}
    /\ phase[u] # "handler"

\* C39: a session is finalized only by a step of its own request: while the
\* pipeline run of a session has not ended, no step of another request
\* (the cleanup of an initialize) sets the session's completion flag.
C39_FinalizedByOwnRun ==
    [][\A u \in Tasks :
          /\ Unfinished(u)
          /\ ~sessions[sid[u]].complete /\ sessions'[sid[u]].complete
          => pc'[u] \notin {pc[u], "lk_woken"}]_vars

\* C40: the release at the end of a pipeline run never removes a lock that
\* was acquired by a different request: a run that ends while the thread's
\* lock row was written for another request leaves the row as it is.
C40_ReleaseOnlyOwnLock ==
    [][\A t \in Tasks :
          /\ Releases(t)
          /\ IsThreadLocked(key[t]) /\ threadLock[key[t]].by # t
          => threadLock'[key[t]] = threadLock[key[t]]]_vars

====
